---- MODULE Spec2Model ----
(***************************************************************************)
(* The health-check orchestration core of the blockchain monitoring        *)
(* backend: BlockchainHealthCheck (backend/monitoring/prometheus/          *)
(* exporter.h) and the alert hub AlertManager (backend/monitoring/         *)
(* alerting/manager.cpp).                                                  *)
(*                                                                         *)
(* The background worker is one thread; every step below is one piece of   *)
(* the thread function, and the other threads of the process (a caller of  *)
(* subscribe, a reader of last_report_, the thread that asks for shutdown) *)
(* interleave with it between the steps.                                   *)
(*                                                                         *)
(* Numbers: block heights are unsigned and BlockBits wide (the source's    *)
(* width scaled down); sizes in GB are fixed-point with one binary digit   *)
(* (Gb(5) is 5.0, 9 is 4.5).                                               *)
(***************************************************************************)
EXTENDS Integers, Sequences, FiniteSets, TLC

\* ---------------------------------------------------------------- bounds
MaxCycles == 2
MaxPeers  == 3
MaxSubs   == 1
MaxHubSubs == 2
MaxDeliveries == 2
MaxStablePeers == 1
BlockBits == 8

\* ---------------------------------------------------- program constants
MAX_BLOCK_LAG   == 50
RotateBelowGb   == 5
ReaddBelowPeers == 3

ETH_PROTOCOL_VERSION == "eth"

Gb(x) == 2 * x

Pow2(n) == 2 ^ n

\* networkBlock - localBlock on unsigned block numbers
USub(a, b) == (a - b) % Pow2(BlockBits)

\* ------------------------------------------------------------ data model
RpcMethods == <<"eth_blockNumber", "eth_getBalance", "net_version">>

AlertTypes == {"block_sync_lag", "low_peer_count", "low_disk_space",
               "node_unhealthy"}

\* handler "hx" throws when it is invoked, handler "ha" returns
HandlerIds == {"ha", "hx"}
Throws(h) == h = "hx"

Configs == { [min_peers |-> 2, min_disk_gb |-> Gb(2)],
             [min_peers |-> 2, min_disk_gb |-> Gb(10)],
             [min_peers |-> 4, min_disk_gb |-> Gb(2)] }

EmptyMetrics == [k \in {} |-> 0]

SetMetric(m, key, v) ==
    [k \in (DOMAIN m) \cup {key} |-> IF k = key THEN v ELSE m[k]]

NoReport == [timestamp |-> -1, metrics |-> EmptyMetrics, overall_ok |-> FALSE]

NoFailure == [error |-> "none", origin |-> "none"]

NothingSeen ==
    [sync |-> "none", local |-> -1, network |-> -1,
     peers |-> "none", listedActive |-> -1,
     rpcFailed |-> {}, disk |-> "none", free |-> -1]

NoDelivery == [n |-> 0, type |-> "none", log |-> <<>>, called |-> <<>>,
               threw |-> FALSE]

NoWalk == [state |-> "idle", n |-> 0, type |-> "none", snapshot |-> <<>>,
           i |-> 0, called |-> <<>>]

NoEnv == [blocks |-> "none", peers |-> "none", rpc |-> "none", disk |-> "none"]

\* ------------------------------------------- what the collaborators return
BlockInputs ==
    { [fails |-> "none", local |-> 0,  network |-> 51],
      [fails |-> "none", local |-> 1,  network |-> 51],
      [fails |-> "none", local |-> 1,  network |-> 52],
      [fails |-> "none", local |-> 52, network |-> 1],
      [fails |-> "eth_blockNumber",   local |-> 0, network |-> 0],
      [fails |-> "fetchNetworkBlock", local |-> 1, network |-> 0] }

PeerInfos == [isActive : BOOLEAN, protocolVersion : {ETH_PROTOCOL_VERSION, "other"}]

SeqsUpTo(S, n) == UNION { [1..k -> S] : k \in 0..n }

PeerInputs ==
    { [fails |-> FALSE, peers |-> ps] : ps \in SeqsUpTo(PeerInfos, MaxPeers) }
    \cup { [fails |-> TRUE, peers |-> <<>>] }

RpcInputs == [1..Len(RpcMethods) -> {"ok", "error_payload", "throws"}]

DiskInputs ==
    { [fails |-> FALSE, free |-> f] : f \in {Gb(3), 9, Gb(5), Gb(10)} }
    \cup { [fails |-> TRUE, free |-> 0] }

\* the narrow environment of the multi-cycle specification
FewBlockInputs ==
    { b \in BlockInputs : b.fails = "eth_blockNumber"
                          \/ (b.fails = "none" /\ b.network = 51) }

FewPeerInputs ==
    { [fails |-> FALSE,
       peers |-> [i \in 1..2 |-> [isActive |-> TRUE,
                                  protocolVersion |-> ETH_PROTOCOL_VERSION]]] }

FewRpcInputs == { [i \in 1..Len(RpcMethods) |-> "ok"] }

FewDiskInputs == { [fails |-> FALSE, free |-> Gb(10)] }

\* an environment in which every probe may or may not emit its alert
EmitBlockInputs == { b \in BlockInputs : b.fails = "none" /\ b.local = 1 }

EmitPeerInputs == FewPeerInputs \cup { [fails |-> FALSE, peers |-> <<>>] }

EmitDiskInputs == { d \in DiskInputs : ~d.fails /\ d.free \in {Gb(3), Gb(10)} }

\* the environments runFullCheck is called twice in: every collaborator answers
StableEnvs ==
    [blocks : {b \in BlockInputs : b.fails = "none"},
     peers  : {p \in PeerInputs : ~p.fails /\ Len(p.peers) <= MaxStablePeers},
     rpc    : {r \in RpcInputs : r[2] = "ok"},
     disk   : {d \in DiskInputs : ~d.fails}]

VARIABLES
    cfg,             \* config_
    handlers,        \* AlertManager::handlers
    shutdown_flag_,
    last_report_,
    pc,              \* the worker's position in the thread function
    cycle,           \* cycles begun so far; the clock runFullCheck reads
    localBlock, networkBlock, peerStats, rpcStatus, diskStatus, report,
                     \* the locals of runFullCheck and of the loop body
    stopPc,          \* the position of the thread that stops the checker
    readerView,      \* what an external reader last obtained
    failure,         \* the exception that ended the worker, if any
    \* history of the current cycle
    seen,            \* what the collaborators answered in this cycle
    ran, cycleAlerts, invoked, hcsCalls, hcsArg, rotations, addPeerCalls,
    \* history of the run
    returned, requested, begunAfterRequest,
    subLog,          \* the subscribe calls so far, in order
    lastDelivery,    \* the last alert the hub's message handler delivered
    prevAlerts,      \* the alerts of the cycle before the current one
    idleWait,        \* a shutdown request that met the worker asleep
    requestedAt,     \* where the worker was when shutdown was requested
    walk,            \* the delivery loop in progress on the hub's thread
    env              \* the collaborators' state, where it is held stable

locals  == <<localBlock, networkBlock, peerStats, rpcStatus, diskStatus, report>>
history == <<seen, ran, cycleAlerts, invoked, hcsCalls, hcsArg, rotations, addPeerCalls>>
others  == <<stopPc, readerView, requested, begunAfterRequest>>
ghosts  == <<subLog, lastDelivery, prevAlerts, idleWait, requestedAt, walk, env>>
vars == <<cfg, handlers, shutdown_flag_, last_report_, pc, cycle, locals,
          failure, history, returned, others, ghosts>>

\* PeerStats: total is written and never read, and is left out of the state
NoPeerStats  == [active |-> -1]
NoRpcStatus  == [error_count |-> -1]
NoDiskStatus == [free_gb |-> -1, critical |-> FALSE]

\* -------------------------------------------------------- alert delivery
Registered(tbl, type) == IF type \in DOMAIN tbl THEN tbl[type] ELSE <<>>

\* a delivery loop that goes on after a handler has thrown
InvokedFrom_ContinuesAfterThrow(hs, i) == SubSeq(hs, i, Len(hs))

RECURSIVE InvokedFrom(_, _)
\* the handlers the delivery loop calls, in order; a handler that throws
\* ends the loop
InvokedFrom(hs, i) ==
    IF i > Len(hs) THEN <<>>
    ELSE IF Throws(hs[i]) THEN <<hs[i]>>
    ELSE <<hs[i]>> \o InvokedFrom(hs, i + 1)

\* handlers[alert["type"]]: operator[] of the map inserts a missing key
AfterLookup(tbl, type) ==
    IF type \in DOMAIN tbl THEN tbl ELSE tbl @@ (type :> <<>>)

\* a lookup with at(): a type that is not a key of the table is an error
Delivery_At(tbl, alerts) ==
    IF alerts = <<>>
    THEN [table |-> tbl, called |-> <<>>, threw |-> FALSE]
    ELSE IF alerts[1].type \notin DOMAIN tbl
    THEN [table |-> tbl, called |-> <<>>, threw |-> TRUE]
    ELSE LET called == InvokedFrom(tbl[alerts[1].type], 1)
         IN  [table  |-> tbl,
              called |-> called,
              threw  |-> \E i \in 1..Len(called) : Throws(called[i])]

\* delivery of the alerts a step emits (none or one)
Delivery(tbl, alerts) ==
    IF alerts = <<>>
    THEN [table |-> tbl, called |-> <<>>, threw |-> FALSE]
    ELSE LET called == InvokedFrom(Registered(tbl, alerts[1].type), 1)
         IN  [table  |-> AfterLookup(tbl, alerts[1].type),
              called |-> called,
              threw  |-> \E i \in 1..Len(called) : Throws(called[i])]

Subscriptions(tbl) ==
    LET RECURSIVE Sum(_)
        Sum(S) == IF S = {} THEN 0
                  ELSE LET t == CHOOSE x \in S : TRUE
                       IN  Len(tbl[t]) + Sum(S \ {t})
    IN  Sum(DOMAIN tbl)

\* ------------------------------------------------------------- the probes
Alert(type, severity, details) ==
    [type |-> type, severity |-> severity, details |-> details]

SyncAlerts(b) ==
    IF USub(b.network, b.local) > MAX_BLOCK_LAG
    THEN << Alert("block_sync_lag", "Warning",
                  [local |-> b.local, network |-> b.network]) >>
    ELSE <<>>

\* the failure of a fetch swallowed, the probe answering with zero heights
CheckBlockSync_Swallows(b, tbl) ==
    IF b.fails # "none"
    THEN [throws |-> FALSE, origin |-> "none", alerts |-> <<>>,
          local |-> 0, network |-> 0]
    ELSE [throws  |-> Delivery(tbl, SyncAlerts(b)).threw,
          origin  |-> "handler",
          alerts  |-> SyncAlerts(b),
          local   |-> b.local,
          network |-> b.network]

\* checkBlockSync: a failed fetch, or an exception out of the emit, leaves
\* the try block and is rethrown as HealthCheckError
CheckBlockSync(b, tbl) ==
    IF b.fails # "none"
    THEN [throws |-> TRUE, origin |-> b.fails, alerts |-> <<>>,
          local |-> -1, network |-> -1]
    ELSE [throws  |-> Delivery(tbl, SyncAlerts(b)).threw,
          origin  |-> "handler",
          alerts  |-> SyncAlerts(b),
          local   |-> b.local,
          network |-> b.network]

\* a count of the peers marked active, whatever their protocol version
CountActive_AnyVersion(peers, i) ==
    Cardinality({j \in i..Len(peers) : peers[j].isActive})

RECURSIVE CountActive(_, _)
\* count_if(peers, isActive && protocolVersion == ETH_PROTOCOL_VERSION)
CountActive(peers, i) ==
    IF i > Len(peers) THEN 0
    ELSE (IF peers[i].isActive /\ peers[i].protocolVersion = ETH_PROTOCOL_VERSION
          THEN 1 ELSE 0) + CountActive(peers, i + 1)

PeerAlerts(active, c) ==
    IF active < c.min_peers
    THEN << Alert("low_peer_count", "Critical", [count |-> active]) >>
    ELSE <<>>

\* checkPeerConnections: admin_peers() is called outside any try block
CheckPeerConnections(p, c, tbl) ==
    IF p.fails
    THEN [throws |-> TRUE, origin |-> "admin_peers", alerts |-> <<>>,
          stats |-> NoPeerStats]
    ELSE LET active == CountActive(p.peers, 1)
         IN  [throws |-> Delivery(tbl, PeerAlerts(active, c)).threw,
              origin |-> "handler",
              alerts |-> PeerAlerts(active, c),
              stats  |-> [active |-> active]]

RECURSIVE RpcErrorCount(_, _)
\* the loop over the methods: an error payload and an exception both count
RpcErrorCount(r, i) ==
    IF i > Len(RpcMethods) THEN 0
    ELSE (IF r[i] = "ok" THEN 0 ELSE 1) + RpcErrorCount(r, i + 1)

\* the calls made outside the try block: an exception of a method escapes
CheckRpcAvailability_NoCatch(r) ==
    [throws |-> \E i \in DOMAIN r : r[i] = "throws",
     status |-> [error_count |-> RpcErrorCount(r, 1)]]

\* checkRpcAvailability: every call is inside try/catch(...)
CheckRpcAvailability(r) ==
    [throws |-> FALSE, status |-> [error_count |-> RpcErrorCount(r, 1)]]

DiskAlerts(free_gb, critical) ==
    IF critical
    THEN << Alert("low_disk_space", "Critical", [free_gb |-> free_gb]) >>
    ELSE <<>>

\* a probe for which free space equal to min_disk_gb is critical too
CheckDiskSpace_AtOrBelow(d, c, tbl) ==
    IF d.fails
    THEN [throws |-> TRUE, origin |-> "fs_space", alerts |-> <<>>,
          status |-> NoDiskStatus]
    ELSE LET critical == d.free <= c.min_disk_gb
         IN  [throws |-> Delivery(tbl, DiskAlerts(d.free, critical)).threw,
              origin |-> "handler",
              alerts |-> DiskAlerts(d.free, critical),
              status |-> [free_gb |-> d.free, critical |-> critical]]

\* checkDiskSpace: fs::space(path) is the throwing overload
CheckDiskSpace(d, c, tbl) ==
    IF d.fails
    THEN [throws |-> TRUE, origin |-> "fs_space", alerts |-> <<>>,
          status |-> NoDiskStatus]
    ELSE LET critical == d.free < c.min_disk_gb
         IN  [throws |-> Delivery(tbl, DiskAlerts(d.free, critical)).threw,
              origin |-> "handler",
              alerts |-> DiskAlerts(d.free, critical),
              status |-> [free_gb |-> d.free, critical |-> critical]]

\* the aggregation without the disk signal
OverallOk_IgnoresDisk(local, active, critical, c) ==
    ~(local = 0 \/ active < c.min_peers)

\* the aggregation of runFullCheck
OverallOk(local, active, critical, c) ==
    ~(local = 0 \/ active < c.min_peers \/ critical)

\* ------------------------------------------------------------------ Init
InitState ==
    /\ cfg \in Configs
    /\ handlers = [t \in {} |-> <<>>]
    /\ shutdown_flag_ = FALSE
    /\ \E ok \in BOOLEAN :
         last_report_ = [timestamp |-> 0, metrics |-> EmptyMetrics, overall_ok |-> ok]
    /\ pc = "loop"
    /\ cycle = 0
    /\ localBlock = -1 /\ networkBlock = -1
    /\ peerStats = NoPeerStats /\ rpcStatus = NoRpcStatus
    /\ diskStatus = NoDiskStatus /\ report = NoReport
    /\ stopPc = "idle"
    /\ readerView = NoReport
    /\ failure = NoFailure
    /\ seen = NothingSeen
    /\ ran = {} /\ cycleAlerts = <<>> /\ invoked = <<>>
    /\ hcsCalls = 0 /\ hcsArg = NoReport /\ rotations = 0 /\ addPeerCalls = 0
    /\ returned = <<>> /\ requested = FALSE /\ begunAfterRequest = 0
    /\ subLog = <<>> /\ lastDelivery = NoDelivery
    /\ prevAlerts = <<>> /\ idleWait = "none" /\ requestedAt = "none"
    /\ walk = NoWalk

\* the state the constructor leaves
Init == InitState /\ env = NoEnv

\* the process lives until an exception leaves the thread function
Alive == pc # "terminated"

\* ------------------------------------------------------ steps of the worker
Emitted(alerts) ==
    LET d == Delivery(handlers, alerts) IN
    /\ handlers' = d.table
    /\ cycleAlerts' = cycleAlerts \o alerts
    /\ invoked' = invoked \o [i \in 1..Len(d.called) |->
                                [handler |-> d.called[i], type |-> alerts[1].type]]

\* the thread function has no try block: an exception that reaches it ends
\* the thread, and with it the process (std::terminate)
Escapes(error, origin) ==
    /\ pc' = "terminated"
    /\ failure' = [error |-> error, origin |-> origin]

\* the loop without its test of the flag
LoopTest_IgnoresFlag(cap) ==
    /\ pc = "loop"
    /\ cycle < cap
    /\ pc' = "run"
    /\ begunAfterRequest' = begunAfterRequest + (IF requested THEN 1 ELSE 0)
    /\ UNCHANGED <<ghosts, cfg, handlers, shutdown_flag_, last_report_, cycle, locals,
                   failure, history, returned, stopPc, readerView, requested>>

\* while (!shutdown_flag_.load())
LoopTest(cap) ==
    /\ pc = "loop"
    /\ IF shutdown_flag_
       THEN /\ pc' = "exited"
            /\ UNCHANGED begunAfterRequest
       ELSE /\ cycle < cap
            /\ pc' = "run"
            /\ begunAfterRequest' = begunAfterRequest + (IF requested THEN 1 ELSE 0)
    /\ UNCHANGED <<ghosts, cfg, handlers, shutdown_flag_, last_report_, cycle, locals,
                   failure, history, returned, stopPc, readerView, requested>>

\* a check that builds its report in the shared slot
BeginCheck_BuildsInSlot ==
    /\ pc = "run"
    /\ cycle' = cycle + 1
    /\ report' = [timestamp |-> cycle + 1, metrics |-> EmptyMetrics,
                  overall_ok |-> FALSE]
    /\ last_report_' = report'
    /\ pc' = "sync"
    /\ UNCHANGED <<ghosts, cfg, handlers, shutdown_flag_, localBlock,
                   networkBlock, peerStats, rpcStatus, diskStatus, failure,
                   history, returned, others>>

\* a check that begins with the peer probe
BeginCheck_SkipsSync ==
    /\ pc = "run"
    /\ cycle' = cycle + 1
    /\ report' = [timestamp |-> cycle + 1, metrics |-> EmptyMetrics,
                  overall_ok |-> FALSE]
    /\ pc' = "peers"
    /\ UNCHANGED <<ghosts, cfg, handlers, shutdown_flag_, last_report_, localBlock,
                   networkBlock, peerStats, rpcStatus, diskStatus, failure,
                   history, returned, others>>

\* runFullCheck: HealthReport report; report.timestamp = now()
BeginCheck ==
    /\ pc = "run"
    /\ cycle' = cycle + 1
    /\ report' = [timestamp |-> cycle + 1, metrics |-> EmptyMetrics,
                  overall_ok |-> FALSE]
    /\ pc' = "sync"
    /\ UNCHANGED <<ghosts, cfg, handlers, shutdown_flag_, last_report_, localBlock,
                   networkBlock, peerStats, rpcStatus, diskStatus, failure,
                   history, returned, others>>

SyncProbe(B) ==
    /\ pc = "sync"
    /\ \E b \in B :
         LET res == CheckBlockSync(b, handlers) IN
         /\ ran' = ran \cup {"sync"}
         /\ seen' = [seen EXCEPT
                        !.sync = IF b.fails = "none" THEN "ok" ELSE b.fails,
                        !.local = IF b.fails = "none" THEN b.local ELSE -1,
                        !.network = IF b.fails = "none" THEN b.network ELSE -1]
         /\ Emitted(res.alerts)
         /\ IF res.throws
            THEN /\ Escapes("HealthCheckError", res.origin)
                 /\ UNCHANGED <<localBlock, networkBlock, report>>
            ELSE /\ localBlock' = res.local
                 /\ networkBlock' = res.network
                 /\ report' = [report EXCEPT !.metrics =
                       SetMetric(@, "block_diff", USub(res.network, res.local))]
                 /\ pc' = "peers"
                 /\ UNCHANGED failure
    /\ UNCHANGED <<ghosts, cfg, shutdown_flag_, last_report_, cycle, peerStats, rpcStatus,
                   diskStatus, hcsCalls, hcsArg, rotations, addPeerCalls,
                   returned, others>>

PeerProbe(P) ==
    /\ pc = "peers"
    /\ \E p \in P :
         LET res == CheckPeerConnections(p, cfg, handlers) IN
         /\ ran' = ran \cup {"peers"}
         /\ seen' = [seen EXCEPT
                        !.peers = IF p.fails THEN "fails" ELSE "ok",
                        !.listedActive =
                            IF p.fails THEN -1
                            ELSE Cardinality({i \in DOMAIN p.peers :
                                   /\ p.peers[i].isActive
                                   /\ p.peers[i].protocolVersion = ETH_PROTOCOL_VERSION})]
         /\ Emitted(res.alerts)
         /\ IF res.throws
            THEN /\ Escapes("exception", res.origin)
                 /\ UNCHANGED <<peerStats, report>>
            ELSE /\ peerStats' = res.stats
                 /\ report' = [report EXCEPT !.metrics =
                       SetMetric(@, "active_peers", res.stats.active)]
                 /\ pc' = "rpc"
                 /\ UNCHANGED failure
    /\ UNCHANGED <<ghosts, cfg, shutdown_flag_, last_report_, cycle, localBlock,
                   networkBlock, rpcStatus, diskStatus, hcsCalls, hcsArg,
                   rotations, addPeerCalls, returned, others>>

\* an error count kept from one call of the probe to the next
RpcProbe_Accumulates(R) ==
    /\ pc = "rpc"
    /\ \E r \in R :
         LET res  == CheckRpcAvailability(r)
             kept == IF "rpc_errors" \in DOMAIN last_report_.metrics
                     THEN last_report_.metrics["rpc_errors"] ELSE 0
         IN
         /\ ran' = ran \cup {"rpc"}
         /\ seen' = [seen EXCEPT !.rpcFailed = {i \in DOMAIN r : r[i] # "ok"}]
         /\ rpcStatus' = [error_count |-> kept + res.status.error_count]
         /\ report' = [report EXCEPT !.metrics =
               SetMetric(@, "rpc_errors", kept + res.status.error_count)]
         /\ pc' = "disk"
         /\ UNCHANGED failure
    /\ UNCHANGED <<ghosts, cfg, handlers, shutdown_flag_, last_report_, cycle, localBlock,
                   networkBlock, peerStats, diskStatus, cycleAlerts, invoked,
                   hcsCalls, hcsArg, rotations, addPeerCalls, returned, others>>

RpcProbe(R) ==
    /\ pc = "rpc"
    /\ \E r \in R :
         LET res == CheckRpcAvailability(r) IN
         /\ ran' = ran \cup {"rpc"}
         /\ seen' = [seen EXCEPT !.rpcFailed = {i \in DOMAIN r : r[i] # "ok"}]
         /\ IF res.throws
            THEN /\ Escapes("exception", "rpc")
                 /\ UNCHANGED <<rpcStatus, report>>
            ELSE /\ rpcStatus' = res.status
                 /\ report' = [report EXCEPT !.metrics =
                       SetMetric(@, "rpc_errors", res.status.error_count)]
                 /\ pc' = "disk"
                 /\ UNCHANGED failure
    /\ UNCHANGED <<ghosts, cfg, handlers, shutdown_flag_, last_report_, cycle, localBlock,
                   networkBlock, peerStats, diskStatus, cycleAlerts, invoked,
                   hcsCalls, hcsArg, rotations, addPeerCalls, returned, others>>

DiskProbe(D) ==
    /\ pc = "disk"
    /\ \E d \in D :
         LET res == CheckDiskSpace(d, cfg, handlers) IN
         /\ ran' = ran \cup {"disk"}
         /\ seen' = [seen EXCEPT
                        !.disk = IF d.fails THEN "fails" ELSE "ok",
                        !.free = IF d.fails THEN -1 ELSE d.free]
         /\ Emitted(res.alerts)
         /\ IF res.throws
            THEN /\ Escapes("exception", res.origin)
                 /\ UNCHANGED <<diskStatus, report>>
            ELSE /\ diskStatus' = res.status
                 /\ report' = [report EXCEPT !.metrics =
                       SetMetric(@, "disk_free_gb", res.status.free_gb)]
                 /\ pc' = "aggregate"
                 /\ UNCHANGED failure
    /\ UNCHANGED <<ghosts, cfg, shutdown_flag_, last_report_, cycle, localBlock,
                   networkBlock, peerStats, rpcStatus, hcsCalls, hcsArg,
                   rotations, addPeerCalls, returned, others>>

\* report.overall_ok = ...; return report
Aggregate ==
    /\ pc = "aggregate"
    /\ report' = [report EXCEPT !.overall_ok =
                    OverallOk(localBlock, peerStats.active, diskStatus.critical, cfg)]
    /\ returned' = Append(returned, report')
    /\ pc' = "store_timestamp"
    /\ UNCHANGED <<ghosts, cfg, handlers, shutdown_flag_, last_report_, cycle, localBlock,
                   networkBlock, peerStats, rpcStatus, diskStatus, failure,
                   history, others>>

\* last_report_ = report: a member-wise copy into the shared slot, taken
\* under no lock; another thread may run between one member and the next
StoreTimestamp ==
    /\ pc = "store_timestamp"
    /\ last_report_' = [last_report_ EXCEPT !.timestamp = report.timestamp]
    /\ pc' = "store_metrics"
    /\ UNCHANGED <<ghosts, cfg, handlers, shutdown_flag_, cycle, locals, failure,
                   history, returned, others>>

\* a store that leaves the metrics of the slot as they were
StoreMetrics_Skipped ==
    /\ pc = "store_metrics"
    /\ pc' = "store_overall_ok"
    /\ UNCHANGED <<ghosts, cfg, handlers, shutdown_flag_, last_report_, cycle,
                   locals, failure, history, returned, others>>

StoreMetrics ==
    /\ pc = "store_metrics"
    /\ last_report_' = [last_report_ EXCEPT !.metrics = report.metrics]
    /\ pc' = "store_overall_ok"
    /\ UNCHANGED <<ghosts, cfg, handlers, shutdown_flag_, cycle, locals, failure,
                   history, returned, others>>

StoreOverallOk ==
    /\ pc = "store_overall_ok"
    /\ last_report_' = [last_report_ EXCEPT !.overall_ok = report.overall_ok]
    /\ pc' = "decide"
    /\ UNCHANGED <<ghosts, cfg, handlers, shutdown_flag_, cycle, locals, failure,
                   history, returned, others>>

\* the escalation run after every cycle
NeedsEscalation_Always(r) == TRUE

\* if (!report.overall_ok)
NeedsEscalation(r) == ~r.overall_ok

\* a worker that reads the flag after the store and stops before escalation
Decide_StopsOnFlag ==
    /\ pc = "decide"
    /\ IF shutdown_flag_
       THEN /\ pc' = "exited"
            /\ UNCHANGED <<hcsCalls, hcsArg>>
       ELSE IF NeedsEscalation(report)
       THEN /\ pc' = "hcs_emit"
            /\ hcsCalls' = hcsCalls + 1
            /\ hcsArg' = report
       ELSE /\ pc' = "sleep"
            /\ UNCHANGED <<hcsCalls, hcsArg>>
    /\ UNCHANGED <<ghosts, cfg, handlers, shutdown_flag_, last_report_, cycle, locals,
                   failure, seen, ran, cycleAlerts, invoked, rotations, addPeerCalls,
                   returned, others>>

Decide ==
    /\ pc = "decide"
    /\ IF NeedsEscalation(report)
       THEN /\ pc' = "hcs_emit"
            /\ hcsCalls' = hcsCalls + 1
            /\ hcsArg' = report
       ELSE /\ pc' = "sleep"
            /\ UNCHANGED <<hcsCalls, hcsArg>>
    /\ UNCHANGED <<ghosts, cfg, handlers, shutdown_flag_, last_report_, cycle, locals,
                   failure, seen, ran, cycleAlerts, invoked, rotations, addPeerCalls,
                   returned, others>>

UnhealthyAlert(r) ==
    << Alert("node_unhealthy", "Critical",
             [block_diff |-> r.metrics["block_diff"],
              rpc_errors |-> r.metrics["rpc_errors"]]) >>

\* an escalation that raises no composite alert
HcsEmit_Silent ==
    /\ pc = "hcs_emit"
    /\ pc' = "hcs_rotate"
    /\ UNCHANGED <<ghosts, cfg, handlers, shutdown_flag_, last_report_, cycle,
                   locals, failure, history, returned, others>>

\* handleCriticalStatus, 1: the composite alert
HcsEmit ==
    /\ pc = "hcs_emit"
    /\ Emitted(UnhealthyAlert(hcsArg))
    /\ IF Delivery(handlers, UnhealthyAlert(hcsArg)).threw
       THEN Escapes("exception", "handler")
       ELSE pc' = "hcs_rotate" /\ UNCHANGED failure
    /\ UNCHANGED <<ghosts, cfg, shutdown_flag_, last_report_, cycle, locals, seen, ran,
                   hcsCalls, hcsArg, rotations, addPeerCalls, returned, others>>

WantsRotation(r) == r.metrics["disk_free_gb"] < Gb(RotateBelowGb)

\* handleCriticalStatus, 2: rotateLogs() returns or throws
HcsRotate ==
    /\ pc = "hcs_rotate"
    /\ IF WantsRotation(hcsArg)
       THEN /\ rotations' = rotations + 1
            /\ \E thrown \in BOOLEAN :
                 IF thrown THEN Escapes("exception", "rotateLogs")
                 ELSE pc' = "hcs_addpeer" /\ UNCHANGED failure
       ELSE /\ pc' = "hcs_addpeer"
            /\ UNCHANGED <<rotations, failure>>
    /\ UNCHANGED <<ghosts, cfg, handlers, shutdown_flag_, last_report_, cycle, locals,
                   seen, ran, cycleAlerts, invoked, hcsCalls, hcsArg, addPeerCalls,
                   returned, others>>

WantsReadd(r) == r.metrics["active_peers"] < ReaddBelowPeers

\* handleCriticalStatus, 3: admin_addPeer(bootstrap_nodes) returns or throws
HcsAddPeer ==
    /\ pc = "hcs_addpeer"
    /\ IF WantsReadd(hcsArg)
       THEN /\ addPeerCalls' = addPeerCalls + 1
            /\ \E thrown \in BOOLEAN :
                 IF thrown THEN Escapes("exception", "admin_addPeer")
                 ELSE pc' = "sleep" /\ UNCHANGED failure
       ELSE /\ pc' = "sleep"
            /\ UNCHANGED <<addPeerCalls, failure>>
    /\ UNCHANGED <<ghosts, cfg, handlers, shutdown_flag_, last_report_, cycle, locals,
                   seen, ran, cycleAlerts, invoked, hcsCalls, hcsArg, rotations,
                   returned, others>>

\* std::this_thread::sleep_for(HEALTHCHECK_INTERVAL) returns; the locals of
\* the iteration go out of scope
Wake ==
    /\ pc = "sleep"
    /\ pc' = "loop"
    /\ localBlock' = -1 /\ networkBlock' = -1
    /\ peerStats' = NoPeerStats /\ rpcStatus' = NoRpcStatus
    /\ diskStatus' = NoDiskStatus /\ report' = NoReport
    /\ seen' = NothingSeen
    /\ ran' = {} /\ cycleAlerts' = <<>> /\ invoked' = <<>>
    /\ hcsCalls' = 0 /\ hcsArg' = NoReport /\ rotations' = 0 /\ addPeerCalls' = 0
    /\ prevAlerts' = cycleAlerts
    /\ idleWait' = IF idleWait = "requested" THEN "expired" ELSE idleWait
    /\ UNCHANGED <<subLog, lastDelivery, requestedAt, walk, env, cfg, handlers, shutdown_flag_, last_report_, cycle, failure,
                   returned, others>>

Worker(cap, B, P, R, D) ==
    \/ LoopTest(cap)
    \/ BeginCheck
    \/ SyncProbe(B)
    \/ PeerProbe(P)
    \/ RpcProbe(R)
    \/ DiskProbe(D)
    \/ Aggregate
    \/ StoreTimestamp
    \/ StoreMetrics
    \/ StoreOverallOk
    \/ Decide
    \/ HcsEmit
    \/ HcsRotate
    \/ HcsAddPeer
    \/ Wake

\* a registration that puts the handler at the front of its sequence
Subscribe_Prepends(limit) ==
    /\ Alive
    /\ Subscriptions(handlers) < limit
    /\ \E t \in AlertTypes, h \in HandlerIds :
         /\ handlers' = [x \in (DOMAIN handlers) \cup {t} |->
                           IF x = t THEN <<h>> \o Registered(handlers, t)
                           ELSE handlers[x]]
         /\ subLog' = Append(subLog, [type |-> t, handler |-> h])
    /\ UNCHANGED <<lastDelivery, prevAlerts, idleWait, requestedAt, walk, env, cfg,
                   shutdown_flag_, last_report_, pc, cycle, locals,
                   failure, history, returned, others>>

\* ------------------------------------------------- the other threads
\* AlertManager::subscribe: handlers[alert_type].push_back(handler)
Subscribe(limit) ==
    /\ Alive
    /\ Subscriptions(handlers) < limit
    /\ \E t \in AlertTypes, h \in HandlerIds :
         /\ handlers' = [x \in (DOMAIN handlers) \cup {t} |->
                           IF x = t THEN Append(Registered(handlers, t), h)
                           ELSE handlers[x]]
         /\ subLog' = Append(subLog, [type |-> t, handler |-> h])
    /\ UNCHANGED <<lastDelivery, prevAlerts, idleWait, requestedAt, walk, env, cfg, shutdown_flag_, last_report_, pc, cycle, locals,
                   failure, history, returned, others>>

\* the message handler installed by startMonitoring: one incoming alert is
\* handed to the handlers of its type
Deliver ==
    /\ Alive
    /\ lastDelivery.n < MaxDeliveries
    /\ \E t \in AlertTypes :
         LET d == Delivery(handlers, << Alert(t, "Info", <<>>) >>) IN
         /\ handlers' = d.table
         /\ lastDelivery' = [n      |-> lastDelivery.n + 1,
                             type   |-> t,
                             log    |-> subLog,
                             called |-> d.called,
                             threw  |-> d.threw]
    /\ UNCHANGED <<subLog, prevAlerts, idleWait, requestedAt, walk, env, cfg, shutdown_flag_,
                   last_report_, pc, cycle, locals, failure, history,
                   returned, others>>

\* the message handler step by step, as another thread sees it.
\* for (const auto& handler : handlers[alert["type"]]): the lookup, and the
\* begin and end iterators of the vector found
DeliverBegin ==
    /\ Alive
    /\ walk.state # "walking"
    /\ walk.n < MaxDeliveries
    /\ \E t \in AlertTypes :
         /\ handlers' = AfterLookup(handlers, t)
         /\ walk' = [state |-> "walking", n |-> walk.n + 1, type |-> t,
                     snapshot |-> Registered(handlers, t), i |-> 1,
                     called |-> <<>>]
    /\ UNCHANGED <<subLog, lastDelivery, prevAlerts, idleWait, requestedAt, env,
                   cfg, shutdown_flag_, last_report_, pc, cycle, locals, failure,
                   history, returned, others>>

\* the handlers an iterator into the vector may reach: the element it was
\* taken for, as long as no push_back has touched the vector; after one,
\* the iterator is read in a data race and may point into freed storage
Reached(w, tbl) ==
    IF tbl[w.type] = w.snapshot
    THEN {w.snapshot[w.i]}
    ELSE {w.snapshot[w.i], "dangling"}

\* handler(alert), for the element the iterator stands on
DeliverStep ==
    /\ walk.state = "walking"
    /\ walk.i <= Len(walk.snapshot)
    /\ \E h \in Reached(walk, handlers) :
         walk' = [walk EXCEPT !.called = Append(@, h),
                              !.i = @ + 1,
                              !.state = IF Throws(h) \/ h = "dangling"
                                        THEN "done" ELSE "walking"]
    /\ UNCHANGED <<subLog, lastDelivery, prevAlerts, idleWait, requestedAt, env,
                   cfg, handlers, shutdown_flag_, last_report_, pc, cycle, locals,
                   failure, history, returned, others>>

\* the iterator has reached the end
DeliverEnd ==
    /\ walk.state = "walking"
    /\ walk.i > Len(walk.snapshot)
    /\ walk' = [walk EXCEPT !.state = "done"]
    /\ UNCHANGED <<subLog, lastDelivery, prevAlerts, idleWait, requestedAt, env,
                   cfg, handlers, shutdown_flag_, last_report_, pc, cycle, locals,
                   failure, history, returned, others>>

\* the stop operation, first half: the shutdown request
RequestShutdown ==
    /\ Alive
    /\ stopPc = "idle"
    /\ shutdown_flag_' = TRUE
    /\ requested' = TRUE
    /\ stopPc' = "joining"
    /\ idleWait' = IF pc = "sleep" THEN "requested" ELSE idleWait
    /\ requestedAt' = CASE pc = "loop"  -> "boundary"
                         [] pc = "sleep" -> "idle"
                         [] OTHER        -> "cycle"
    /\ UNCHANGED <<subLog, lastDelivery, prevAlerts, walk, env, cfg, handlers, last_report_, pc, cycle, locals, failure,
                   history, returned, readerView, begunAfterRequest>>

\* stop returning without a join of the worker
JoinWorker_Detached ==
    /\ stopPc = "joining"
    /\ stopPc' = "returned"
    /\ UNCHANGED <<ghosts, cfg, handlers, shutdown_flag_, last_report_, pc, cycle,
                   locals, failure, history, returned, readerView, requested,
                   begunAfterRequest>>

\* the stop operation, second half: join of the worker, then return
JoinWorker ==
    /\ stopPc = "joining"
    /\ pc = "exited"
    /\ stopPc' = "returned"
    /\ UNCHANGED <<ghosts, cfg, handlers, shutdown_flag_, last_report_, pc, cycle,
                   locals, failure, history, returned, readerView, requested,
                   begunAfterRequest>>

\* an external reader takes a copy of the current report
ReadReport ==
    /\ Alive
    /\ readerView' = last_report_
    /\ readerView' # readerView
    /\ UNCHANGED <<ghosts, cfg, handlers, shutdown_flag_, last_report_, pc, cycle,
                   locals, failure, history, returned, stopPc, requested,
                   begunAfterRequest>>

\* --------------------------------------------------------- specifications
\* the checker over MaxCycles cycles in a narrow environment, with the
\* threads that stop it, read its report and subscribe
Next ==
    \/ Worker(MaxCycles, FewBlockInputs, FewPeerInputs, FewRpcInputs, FewDiskInputs)
    \/ Subscribe(MaxSubs)
    \/ RequestShutdown
    \/ JoinWorker
    \/ ReadReport

Spec == Init /\ [][Next]_vars

\* one cycle of the checker over the whole environment
NextCheck ==
    \/ Worker(1, BlockInputs, PeerInputs, RpcInputs, DiskInputs)
    \/ Subscribe(MaxSubs)

SpecCheck == Init /\ [][NextCheck]_vars

\* the alert hub alone: subscriptions and incoming alerts
NextAlerts ==
    \/ Subscribe(MaxHubSubs)
    \/ Deliver

SpecAlerts == Init /\ [][NextAlerts]_vars

\* one cycle of the checker with several handlers subscribed
NextEmit ==
    \/ Worker(1, EmitBlockInputs, EmitPeerInputs, FewRpcInputs, EmitDiskInputs)
    \/ Subscribe(MaxHubSubs)

SpecEmit == Init /\ [][NextEmit]_vars

\* subscribe calls of one thread against deliveries of another
NextRace ==
    \/ Subscribe(MaxHubSubs)
    \/ DeliverBegin
    \/ DeliverStep
    \/ DeliverEnd

SpecRace == Init /\ [][NextRace]_vars

\* the worker with no shutdown request, scheduled whenever it can take a step
WorkerLive ==
    Worker(MaxCycles, FewBlockInputs, FewPeerInputs, FewRpcInputs, FewDiskInputs)

NextLive ==
    \/ WorkerLive
    \/ Subscribe(MaxSubs)

SpecLive == Init /\ [][NextLive]_vars /\ WF_vars(WorkerLive)

\* the worker in an environment that does not change from cycle to cycle
InitStable == InitState /\ env \in StableEnvs

NextStable == Worker(MaxCycles, {env.blocks}, {env.peers}, {env.rpc}, {env.disk})

SpecStable == InitStable /\ [][NextStable]_vars

\* ------------------------------------------------------------- properties
\* runFullCheck has returned the report of the cycle in progress
CycleReturned == cycle > 0 /\ Len(returned) = cycle /\ report.timestamp = cycle

CountType(alerts, type) ==
    Cardinality({i \in 1..Len(alerts) : alerts[i].type = type})

\* C1: in every report runFullCheck returns, overall_ok is false exactly
\* when the local block is 0, or the active peers are fewer than min_peers,
\* or the disk is critical, for the values the cycle observed; block lag
\* and rpc_errors play no part.
C1_OverallOkIffThreeSignals ==
    CycleReturned =>
        /\ returned[cycle] = report
        /\ (report.overall_ok = FALSE) <=>
               \/ localBlock = 0
               \/ peerStats.active < cfg.min_peers
               \/ diskStatus.critical

\* a healthy report although the lag is above MAX_BLOCK_LAG and every RPC
\* method failed
C1_Witness ==
    /\ CycleReturned
    /\ report.overall_ok
    /\ report.metrics["block_diff"] > MAX_BLOCK_LAG
    /\ report.metrics["rpc_errors"] = Len(RpcMethods)

\* C2: a cycle whose block-sync probe raises HealthCheckError does not end
\* the background worker: the worker is still running afterwards.
C2_SyncErrorKeepsWorkerRunning ==
    failure.error = "HealthCheckError" => pc \notin {"terminated", "exited"}

\* C3: once shutdown has been requested the worker begins no new cycle;
\* only the iteration that had passed the loop test at the moment of the
\* request runs to its end.
C3_NoCycleBegunAfterRequest == begunAfterRequest = 0

\* shutdown was requested during the first iteration, and the worker left
\* the loop after that one cycle
C3_Witness ==
    /\ requested
    /\ pc = "exited"
    /\ cycle = 1
    /\ Len(returned) = 1

\* C4: in every state in which stop has returned the worker has left its
\* thread function, and from then on the current report is never written.
C4_StopReturnsAfterWorkerExit ==
    /\ [](stopPc = "returned" => pc = "exited")
    /\ [][stopPc = "returned" => last_report_' = last_report_]_vars

\* stop has returned after the worker had completed a cycle
C4_Witness ==
    /\ stopPc = "returned"
    /\ Len(returned) >= 1
    /\ last_report_ = returned[Len(returned)]

IsInitialReport(r) == r.timestamp = 0 /\ r.metrics = EmptyMetrics

\* C5: every value a reader obtains is, field for field, the report some
\* cycle returned (or the slot's initial value, before the first store).
C5_ReaderSeesWholeReports ==
    \/ readerView = NoReport
    \/ IsInitialReport(readerView)
    \/ \E i \in 1..Len(returned) : readerView = returned[i]

\* C6: whatever subset of the RPC methods fails, the probe returns, the
\* report's rpc_errors is the number of failing methods, and overall_ok is
\* what the other three signals make it.
C6_RpcFailuresAreCounted ==
    /\ "rpc" \in ran =>
          /\ failure.origin # "rpc"
          /\ rpcStatus.error_count = Cardinality(seen.rpcFailed)
    /\ CycleReturned =>
          /\ report.metrics["rpc_errors"] = Cardinality(seen.rpcFailed)
          /\ report.overall_ok <=>
                ~(localBlock = 0 \/ peerStats.active < cfg.min_peers
                  \/ diskStatus.critical)

\* all three methods failed, and a healthy report was returned
C6_Witness ==
    /\ CycleReturned
    /\ seen.rpcFailed = DOMAIN RpcMethods
    /\ report.metrics["rpc_errors"] = 3
    /\ report.overall_ok

\* C7: a failure of the peer listing or of the disk-space query does not
\* leave its probe as an exception.
C7_PeerAndDiskFailuresAbsorbed ==
    /\ seen.peers = "fails" => failure.origin # "admin_peers"
    /\ seen.disk = "fails" => failure.origin # "fs_space"

\* C8: when the fetch of the local or of the network block fails, the
\* cycle ends with HealthCheckError out of runFullCheck: no report is
\* returned for it, the peer, RPC and disk probes do not run, and no alert
\* is emitted in it.
C8_SyncFailureAbortsCycle ==
    seen.sync \in {"eth_blockNumber", "fetchNetworkBlock"} =>
        /\ failure = [error |-> "HealthCheckError", origin |-> seen.sync]
        /\ pc = "terminated"
        /\ Len(returned) = cycle - 1
        /\ ran = {"sync"}
        /\ report.metrics = EmptyMetrics
        /\ cycleAlerts = <<>>

\* the fetch of the network block failed
C8_Witness ==
    /\ seen.sync = "fetchNetworkBlock"
    /\ failure.error = "HealthCheckError"
    /\ cycle = 1

\* handleCriticalStatus has been called in this cycle and is over
EscalationOver == hcsCalls = 1 /\ pc \in {"sleep", "terminated"}

\* C9: when handleCriticalStatus is over, every action whose condition
\* holds has been performed, whether or not an earlier one failed.
C9_EscalationActionsIndependent ==
    EscalationOver =>
        /\ WantsRotation(hcsArg) => rotations = 1
        /\ WantsReadd(hcsArg) => addPeerCalls = 1

\* C10: handleCriticalStatus is called once in a cycle whose report is
\* unhealthy, with that report, and not at all in a cycle whose report is
\* healthy; node_unhealthy is emitted in a cycle exactly when
\* handleCriticalStatus has run in it.
C10_EscalationIffUnhealthy ==
    /\ hcsCalls \in {0, 1}
    /\ hcsCalls = 1 =>
          /\ CycleReturned
          /\ ~report.overall_ok
          /\ hcsArg = returned[cycle]
    /\ (CycleReturned /\ report.overall_ok) => hcsCalls = 0
    /\ pc = "sleep" => (hcsCalls = 1 <=> ~report.overall_ok)
    /\ pc \in {"hcs_rotate", "hcs_addpeer", "sleep"} =>
          CountType(cycleAlerts, "node_unhealthy") = hcsCalls
    /\ CountType(cycleAlerts, "node_unhealthy") <= hcsCalls

\* the second cycle completed unhealthy and was escalated once
C10_Witness ==
    /\ pc = "sleep"
    /\ cycle = 2
    /\ ~report.overall_ok
    /\ hcsCalls = 1
    /\ CountType(cycleAlerts, "node_unhealthy") = 1

\* the handlers of one type in a log of subscribe calls, in call order
SubscribedTo(log, type) ==
    LET own == SelectSeq(log, LAMBDA e : e.type = type)
    IN  [i \in 1..Len(own) |-> own[i].handler]

\* a sequence of handlers up to and including the first one that throws
UpToFirstThrow(hs) ==
    LET throwers == {i \in 1..Len(hs) : Throws(hs[i])}
    IN  IF throwers = {} THEN hs
        ELSE SubSeq(hs, 1, CHOOSE i \in throwers : \A j \in throwers : i <= j)

\* C11 as stated: the delivery of one alert of type T invokes every handler
\* subscribed to T, once per subscription and in subscription order, and no
\* other handler.
C11_AllSubscribedInvoked ==
    lastDelivery.n > 0 =>
        lastDelivery.called = SubscribedTo(lastDelivery.log, lastDelivery.type)

\* C11: the delivery of one alert of type T invokes the handlers subscribed
\* to T once per subscription and in subscription order, up to and including
\* the first of them that throws (all of them when none throws); handlers
\* subscribed to other types are not invoked.
C11_SubscribedInvokedUntilThrow ==
    lastDelivery.n > 0 =>
        lastDelivery.called =
            UpToFirstThrow(SubscribedTo(lastDelivery.log, lastDelivery.type))

\* two handlers subscribed to the delivered type, the first of which throws:
\* the delivery ends with it
C11_Witness ==
    /\ lastDelivery.n > 0
    /\ Len(SubscribedTo(lastDelivery.log, lastDelivery.type)) = 2
    /\ Len(lastDelivery.called) = 1
    /\ lastDelivery.threw

\* C12: in a run of the block-sync probe that obtained both heights, a lag
\* network_block - local_block above MAX_BLOCK_LAG gives exactly one
\* block_sync_lag alert of severity Warning carrying the two heights, and a
\* lag of MAX_BLOCK_LAG or less gives no block_sync_lag alert.
C12_LagAlertIffLagAboveMax ==
    seen.sync = "ok" =>
        IF seen.network - seen.local > MAX_BLOCK_LAG
        THEN /\ CountType(cycleAlerts, "block_sync_lag") = 1
             /\ \E i \in 1..Len(cycleAlerts) :
                    cycleAlerts[i] = Alert("block_sync_lag", "Warning",
                                           [local |-> seen.local,
                                            network |-> seen.network])
        ELSE CountType(cycleAlerts, "block_sync_lag") = 0

\* C13: in a run of the peer-connectivity probe, active is the number of
\* listed peers that are marked active and have the expected protocol
\* version; active < min_peers gives exactly one low_peer_count alert of
\* severity Critical with count = active, and active >= min_peers gives none.
C13_ActiveCountAndLowPeerAlert ==
    seen.peers = "ok" =>
        /\ peerStats # NoPeerStats => peerStats.active = seen.listedActive
        /\ IF seen.listedActive < cfg.min_peers
           THEN /\ CountType(cycleAlerts, "low_peer_count") = 1
                /\ \E i \in 1..Len(cycleAlerts) :
                       cycleAlerts[i] = Alert("low_peer_count", "Critical",
                                              [count |-> seen.listedActive])
           ELSE CountType(cycleAlerts, "low_peer_count") = 0

\* three of four configured peers are counted and the alert carries the count
C13_Witness ==
    /\ seen.peers = "ok"
    /\ cfg.min_peers = 4
    /\ peerStats.active = 3
    /\ \E i \in 1..Len(cycleAlerts) :
          cycleAlerts[i] = Alert("low_peer_count", "Critical", [count |-> 3])

\* C14: when handleCriticalStatus is over, log rotation has been called
\* exactly once if the disk_free_gb of the report it was given is below 5.0
\* and not at all if it is 5.0 or more, whatever min_disk_gb is configured.
C14_RotationIffBelowFiveGb ==
    EscalationOver =>
        rotations = IF hcsArg.metrics["disk_free_gb"] < Gb(RotateBelowGb)
                    THEN 1 ELSE 0

\* the worker is between the first and the last member of the copy into
\* the slot
StoreInProgress == pc \in {"store_timestamp", "store_metrics", "store_overall_ok"}

\* C15: outside the copy into the slot, the current report is the report of
\* the most recently completed cycle (the initial value before the first),
\* whole and with nothing of an older report; escalation runs on a report
\* that is already the current one.
C15_SlotHoldsLatestReport ==
    ~StoreInProgress =>
        /\ returned = <<>> => IsInitialReport(last_report_)
        /\ returned # <<>> => last_report_ = returned[Len(returned)]
        /\ hcsCalls > 0 => last_report_ = hcsArg

\* the second cycle's report has replaced a different first one, and
\* escalation is running on it
C15_Witness ==
    /\ pc = "hcs_emit"
    /\ Len(returned) = 2
    /\ returned[1].metrics # returned[2].metrics
    /\ last_report_ = returned[2]

\* the alerts of a cycle that its probes emitted
ProbeAlerts(alerts) == SelectSeq(alerts, LAMBDA a : a.type # "node_unhealthy")

\* C16: two consecutive calls of runFullCheck in an unchanged environment
\* return reports with the same metrics and the same overall_ok, and emit
\* the same alerts; the timestamps differ.
C16_RunFullCheckIdempotent ==
    Len(returned) >= 2 =>
        LET k == Len(returned) IN
        /\ returned[k].metrics = returned[k - 1].metrics
        /\ returned[k].overall_ok = returned[k - 1].overall_ok
        /\ returned[k].timestamp # returned[k - 1].timestamp
        /\ CycleReturned => ProbeAlerts(cycleAlerts) = ProbeAlerts(prevAlerts)

\* the second call has returned, with failing RPC methods counted and an
\* alert emitted in both calls
C16_Witness ==
    /\ Len(returned) = 2
    /\ CycleReturned
    /\ returned[2].metrics["rpc_errors"] > 0
    /\ ProbeAlerts(cycleAlerts) # <<>>
    /\ ProbeAlerts(prevAlerts) # <<>>

\* C17: the delivery of an alert whose type no handler is subscribed to
\* invokes no handler and raises no error.
C17_UnsubscribedTypeIsNoOp ==
    (lastDelivery.n > 0
     /\ SubscribedTo(lastDelivery.log, lastDelivery.type) = <<>>) =>
        /\ lastDelivery.called = <<>>
        /\ ~lastDelivery.threw

\* handlers are subscribed, to other types than the delivered one
C17_Witness ==
    /\ lastDelivery.n > 0
    /\ Len(lastDelivery.log) = 2
    /\ SubscribedTo(lastDelivery.log, lastDelivery.type) = <<>>
    /\ lastDelivery.called = <<>>
    /\ ~lastDelivery.threw

\* C18: the registration table is changed by subscribe alone: its keys are
\* the types subscribed to and the sequence of each is the handlers
\* subscribed to it, in order, whatever alerts have been delivered.
C18_TableChangedOnlyBySubscribe ==
    /\ DOMAIN handlers = {subLog[i].type : i \in 1..Len(subLog)}
    /\ \A t \in DOMAIN handlers : handlers[t] = SubscribedTo(subLog, t)

\* a handler invoked in the cycle has thrown
HandlerThrew == \E i \in 1..Len(invoked) : Throws(invoked[i].handler)

\* the probes that have run when the probe emitting an alert type runs
ProbesUpTo(type) ==
    CASE type = "block_sync_lag" -> {"sync"}
      [] type = "low_peer_count" -> {"sync", "peers"}
      [] type = "low_disk_space" -> {"sync", "peers", "rpc", "disk"}
      [] OTHER -> {"sync", "peers", "rpc", "disk"}

\* C19: when a handler throws during a delivery, the exception reaches the
\* code that emitted the alert: no handler is invoked after it, and when a
\* probe emitted the alert no later probe of the cycle runs and no report
\* is produced for the cycle.
C19_HandlerThrowPropagates ==
    HandlerThrew =>
        LET last == invoked[Len(invoked)] IN
        /\ Throws(last.handler)
        /\ \A i \in 1..(Len(invoked) - 1) : ~Throws(invoked[i].handler)
        /\ pc = "terminated"
        /\ failure.origin = "handler"
        /\ cycleAlerts[Len(cycleAlerts)].type = last.type
        /\ last.type # "node_unhealthy" =>
              /\ ran = ProbesUpTo(last.type)
              /\ Len(returned) = cycle - 1

\* two handlers are subscribed to low_peer_count and the first throws: the
\* second is not invoked and the cycle ends in the peer probe
C19_Witness ==
    /\ HandlerThrew
    /\ Len(invoked) = 1
    /\ invoked[1].type = "low_peer_count"
    /\ Len(Registered(handlers, "low_peer_count")) = 2
    /\ ran = {"sync", "peers"}
    /\ returned = <<>>

\* C20: a shutdown request made while the worker is idle between two cycles
\* ends the idle wait: the wait never lasts until the interval has elapsed
\* once shutdown has been requested in it.
C20_ShutdownEndsIdleWait == idleWait # "expired"

\* the cycle in progress has run its probes, stored its report and, if the
\* report is unhealthy, called handleCriticalStatus
CycleComplete ==
    /\ ran = {"sync", "peers", "rpc", "disk"}
    /\ Len(returned) = cycle
    /\ last_report_ = returned[cycle]
    /\ ~last_report_.overall_ok =>
          /\ hcsCalls = 1
          /\ CountType(cycleAlerts, "node_unhealthy") = 1

\* C21: the worker acts on the shutdown flag only at the boundary between
\* cycles: it stops only from the loop test, the loop test is reached only
\* from the idle wait, and the idle wait only after the cycle has run all
\* its probes, stored its report and run escalation if it is unhealthy,
\* whether or not shutdown was requested during the cycle.
C21_ShutdownOnlyBetweenCycles ==
    /\ [][(pc' = "exited" /\ pc # "exited") => pc = "loop"]_vars
    /\ [][(pc' = "loop" /\ pc # "loop") => pc = "sleep"]_vars
    /\ [](pc = "sleep" => CycleComplete)
    /\ [](pc = "exited" /\ cycle > 0 =>
             Len(returned) = cycle /\ last_report_ = returned[cycle])

\* shutdown was requested in the first cycle; the worker has stopped after
\* storing the unhealthy report of that cycle
C21_Witness ==
    /\ pc = "exited"
    /\ requestedAt = "cycle"
    /\ cycle = 1
    /\ last_report_ = returned[1]
    /\ ~last_report_.overall_ok

\* C22: when a subscribe call and a delivery running at the same time have
\* both finished, every handler subscribed so far is once in the sequence
\* of its type, in subscription order, and the delivery has invoked only
\* handlers that were registered for the alert's type.
C22_ConcurrentSubscribeIsSafe ==
    walk.state = "done" =>
        /\ \A t \in AlertTypes : Registered(handlers, t) = SubscribedTo(subLog, t)
        /\ \A k \in 1..Len(walk.called) :
              \E j \in 1..Len(subLog) :
                 subLog[j] = [type |-> walk.type, handler |-> walk.called[k]]

\* the place of an alert type in the order of a cycle
AlertRank(type) ==
    CASE type = "block_sync_lag" -> 1
      [] type = "low_peer_count" -> 2
      [] type = "low_disk_space" -> 3
      [] OTHER -> 4

\* C23: in a cycle the probes run one after another in the order
\* block-sync, peers, RPC, disk, each starting when the one before it has
\* returned, and the alerts of the cycle are emitted in the order
\* block_sync_lag, low_peer_count, low_disk_space.
C23_ProbesRunInOrder ==
    /\ pc = "sync"  => ran = {}
    /\ pc = "peers" => ran = {"sync"} /\ localBlock # -1
    /\ pc = "rpc"   => ran = {"sync", "peers"} /\ peerStats # NoPeerStats
    /\ pc = "disk"  => ran = {"sync", "peers", "rpc"} /\ rpcStatus # NoRpcStatus
    /\ ran \in {{}, {"sync"}, {"sync", "peers"}, {"sync", "peers", "rpc"},
                {"sync", "peers", "rpc", "disk"}}
    /\ \A i, j \in 1..Len(cycleAlerts) :
          i < j => AlertRank(cycleAlerts[i].type) < AlertRank(cycleAlerts[j].type)

\* the three probes that emit have each emitted their alert
C23_Witness ==
    /\ pc = "aggregate"
    /\ Len(cycleAlerts) = 3
    /\ cycleAlerts[1].type = "block_sync_lag"
    /\ cycleAlerts[2].type = "low_peer_count"
    /\ cycleAlerts[3].type = "low_disk_space"

\* C24: when handleCriticalStatus is over, the node client has been asked
\* to re-add the bootstrap peers exactly once if the active_peers of the
\* report it was given is below 3 and not at all if it is 3 or more,
\* whatever min_peers is configured.
C24_ReaddIffBelowThreePeers ==
    EscalationOver =>
        addPeerCalls = IF hcsArg.metrics["active_peers"] < ReaddBelowPeers
                       THEN 1 ELSE 0

\* C25: in a run of the disk-space probe, critical is true exactly when the
\* free space is below min_disk_gb (free space equal to it is not
\* critical); one low_disk_space alert of severity Critical carrying
\* free_gb is emitted when critical is true, and none when it is false.
C25_DiskCriticalIffBelowMin ==
    seen.disk = "ok" =>
        /\ diskStatus # NoDiskStatus =>
              /\ diskStatus.free_gb = seen.free
              /\ diskStatus.critical <=> seen.free < cfg.min_disk_gb
        /\ IF seen.free < cfg.min_disk_gb
           THEN /\ CountType(cycleAlerts, "low_disk_space") = 1
                /\ \E i \in 1..Len(cycleAlerts) :
                       cycleAlerts[i] = Alert("low_disk_space", "Critical",
                                              [free_gb |-> seen.free])
           ELSE CountType(cycleAlerts, "low_disk_space") = 0

\* the free space is exactly min_disk_gb: not critical, no alert
C25_Witness ==
    /\ seen.disk = "ok"
    /\ seen.free = cfg.min_disk_gb
    /\ diskStatus = [free_gb |-> seen.free, critical |-> FALSE]
    /\ CountType(cycleAlerts, "low_disk_space") = 0

\* C26: when the local head is at or ahead of the network head, the
\* block-sync probe emits no block_sync_lag alert and the block_diff of the
\* report is not above MAX_BLOCK_LAG: the difference does not wrap around.
C26_NoWrapAroundWhenAhead ==
    (seen.sync = "ok" /\ seen.network <= seen.local) =>
        /\ CountType(cycleAlerts, "block_sync_lag") = 0
        /\ "block_diff" \in DOMAIN report.metrics =>
              report.metrics["block_diff"] <= MAX_BLOCK_LAG

\* an exception has ended the cycle before runFullCheck returned
CycleAborted == pc = "terminated" /\ Len(returned) < cycle

\* C27: a cycle that an error aborts leaves the current report as it was,
\* the report of the last completed cycle (the initial value before the
\* first), and no escalation action is taken for it.
C27_AbortedCycleLeavesReport ==
    CycleAborted =>
        /\ IF returned = <<>>
           THEN IsInitialReport(last_report_)
           ELSE last_report_ = returned[Len(returned)]
        /\ hcsCalls = 0 /\ rotations = 0 /\ addPeerCalls = 0
        /\ CountType(cycleAlerts, "node_unhealthy") = 0

\* the second cycle ended with HealthCheckError; the slot holds the report
\* of the first
C27_Witness ==
    /\ CycleAborted
    /\ cycle = 2
    /\ failure.error = "HealthCheckError"
    /\ last_report_ = returned[1]

\* C28: node_unhealthy is emitted at most once in a cycle, as the last
\* alert of the cycle, when the unhealthy report is already the current
\* report, and before the log rotation and the re-add of the bootstrap
\* peers of that cycle.
C28_CompositeAlertLast ==
    LET n == CountType(cycleAlerts, "node_unhealthy") IN
    /\ n <= 1
    /\ n = 1 =>
          /\ cycleAlerts[Len(cycleAlerts)].type = "node_unhealthy"
          /\ CycleReturned
          /\ last_report_ = returned[cycle]
          /\ ~last_report_.overall_ok
    /\ pc = "hcs_emit" => rotations = 0 /\ addPeerCalls = 0
    /\ pc \in {"hcs_rotate", "hcs_addpeer"} => n = 1
    /\ (rotations > 0 \/ addPeerCalls > 0) => n = 1

\* the composite alert followed two probe alerts and was followed by both
\* corrective actions
C28_Witness ==
    /\ pc = "sleep"
    /\ Len(cycleAlerts) = 3
    /\ cycleAlerts[3].type = "node_unhealthy"
    /\ rotations = 1
    /\ addPeerCalls = 1

\* C29: log rotation and the re-add of the bootstrap peers are performed
\* only in a cycle whose report is unhealthy: never in a cycle whose report
\* has overall_ok true, even with disk_free_gb below 5.0 or active_peers
\* below 3.
C29_CorrectiveActionsOnlyWhenUnhealthy ==
    /\ (CycleReturned /\ report.overall_ok) =>
          rotations = 0 /\ addPeerCalls = 0
    /\ (rotations > 0 \/ addPeerCalls > 0) =>
          CycleReturned /\ ~returned[cycle].overall_ok

\* a healthy cycle is over with free space below 5.0 and fewer than 3
\* active peers, and nothing was done
C29_Witness ==
    /\ pc = "sleep"
    /\ report.overall_ok
    /\ report.metrics["disk_free_gb"] < Gb(RotateBelowGb)
    /\ report.metrics["active_peers"] < ReaddBelowPeers
    /\ rotations = 0
    /\ addPeerCalls = 0

\* C30: with no shutdown request, every cycle, completed or failed, is
\* followed by the start of another one, and the report a completed cycle
\* stored is replaced by a newer one (up to the cycles the model runs).
C30_CyclesFollowOneAnother ==
    /\ \A k \in 1..(MaxCycles - 1) : (cycle = k) ~> (cycle = k + 1)
    /\ \A k \in 1..(MaxCycles - 1) :
          (last_report_.timestamp = k /\ pc = "sleep")
              ~> (last_report_.timestamp = k + 1)

====
